---------------------------- MODULE Spec2Model ----------------------------
(***************************************************************************)
(* Model of the Website-Translator scripts.  The repository holds two      *)
(* variants of the same script: src/index.js (variant "index") and         *)
(* src/unnamed/part_000 (variant "part").  Both walk a tree of HTML        *)
(* documents and, for every registry locale with createnew, translate a    *)
(* fresh copy of the document through translateText and write it.          *)
(*                                                                         *)
(* Strings are sequences of symbols.  The symbols that the code tests for  *)
(* are kept as one symbol each: the brand token "evaluating.tools" (which  *)
(* cannot overlap itself), a differently cased spelling of it, the         *)
(* copyright sign, and the character A-circumflex that index.js tests for. *)
(***************************************************************************)
EXTENDS Integers, Sequences, FiniteSets, TLC

VARIABLES
  variant,            \* which of the two scripts runs: "index" or "part"
  registry,           \* unfilteredlanguages.data (languages.json)
  docs,               \* the .html files under inputFolder, in traversal order
  inputExists,        \* fs.existsSync(inputFolder)
  pc,                 \* position of the run (main / processFolder / translateHTML)
  di,                 \* index of the file being processed
  li,                 \* index of the registry entry of the second loop
  ei,                 \* index of the element of the querySelectorAll loop
  ci,                 \* index inside childNodes / children of that element
  origAlt,            \* alternate links of originalDom (never written)
  dom,                \* translatedDom of the current (file, locale) pair
  tt,                 \* the translateText call being awaited
  orphans,            \* provider calls still pending after Promise.all rejected
  translationCache,   \* the Map translationCache
  outputs,            \* files written by fs.writeFileSync
  hist                \* observations of the run (no effect on the program)

vars == <<variant, registry, docs, inputExists, pc, di, li, ei, ci, origAlt,
          dom, tt, orphans, translationCache, outputs, hist>>

---------------------------------------------------------------------------
(* Bounds of the model. *)

\* Longest sequence of source files of a run.
MaxDocs == 2

---------------------------------------------------------------------------
(* Symbols and strings. *)

Brand == "evaluating.tools"
BrandOtherCase == "Evaluating.Tools"
Copyright == "(c)"
ACircumflex == "A^"
Space == " "
Null == <<"<null>">>

\* What a template literal makes of null: the four characters of "null".
NullText == <<"n", "u", "l", "l">>

\* String.prototype.toLowerCase, on one symbol.
ToLowerSym(ch) == IF ch = BrandOtherCase THEN Brand ELSE ch

ToLowerCase(s) == [i \in 1..Len(s) |-> ToLowerSym(s[i])]

\* s.includes(sym) for a one-symbol needle.
Includes(s, sym) == \E i \in 1..Len(s) : s[i] = sym

\* text.toLowerCase().includes("evaluating.tools")
IncludesBrand(s) == Includes(ToLowerCase(s), Brand)

\* s.startsWith(p)
StartsWith(s, p) == Len(p) <= Len(s) /\ SubSeq(s, 1, Len(p)) = p

\* s.endsWith(p)
EndsWith(s, p) == Len(p) <= Len(s) /\ SubSeq(s, Len(s) - Len(p) + 1, Len(s)) = p

RECURSIVE TrimStart(_)
TrimStart(s) == IF s # <<>> /\ Head(s) = Space THEN TrimStart(Tail(s)) ELSE s

RECURSIVE TrimEnd(_)
TrimEnd(s) ==
  IF s # <<>> /\ s[Len(s)] = Space THEN TrimEnd(SubSeq(s, 1, Len(s) - 1)) ELSE s

\* String.prototype.trim
Trim(s) == TrimEnd(TrimStart(s))

\* text.split("evaluating.tools"): the segments between the exact-case tokens.
RECURSIVE SplitFrom(_, _, _)
SplitFrom(s, i, cur) ==
  IF i > Len(s) THEN <<cur>>
  ELSE IF s[i] = Brand THEN <<cur>> \o SplitFrom(s, i + 1, <<>>)
  ELSE SplitFrom(s, i + 1, Append(cur, s[i]))

Split(s) == SplitFrom(s, 1, <<>>)

\* parts.join("evaluating.tools")
RECURSIVE Join(_)
Join(parts) ==
  IF Len(parts) = 0 THEN <<>>
  ELSE IF Len(parts) = 1 THEN parts[1]
  ELSE parts[1] \o <<Brand>> \o Join(Tail(parts))

\* First index at which needle occurs in s, 0 when it does not.
RECURSIVE IndexOfFrom(_, _, _)
IndexOfFrom(s, needle, i) ==
  IF i + Len(needle) - 1 > Len(s) THEN 0
  ELSE IF SubSeq(s, i, i + Len(needle) - 1) = needle THEN i
  ELSE IndexOfFrom(s, needle, i + 1)

IndexOf(s, needle) == IndexOfFrom(s, needle, 1)

\* s.replace(needle, by) with a string needle: the first occurrence only.
ReplaceFirst(s, needle, by) ==
  LET i == IndexOf(s, needle)
  IN IF i = 0 THEN s
     ELSE SubSeq(s, 1, i - 1) \o by \o SubSeq(s, i + Len(needle), Len(s))

\* s.replace(/\\/g, "/")
ReplaceBackslashes(s) == [i \in 1..Len(s) |-> IF s[i] = "\\" THEN "/" ELSE s[i]]

\* s.replace(/\/+$/, "")
RECURSIVE StripTrailingSlashes(_)
StripTrailingSlashes(s) ==
  IF s # <<>> /\ s[Len(s)] = "/"
  THEN StripTrailingSlashes(SubSeq(s, 1, Len(s) - 1)) ELSE s

\* s.replace(/^\.+/, "")
RECURSIVE StripLeadingDots(_)
StripLeadingDots(s) ==
  IF s # <<>> /\ Head(s) = "." THEN StripLeadingDots(Tail(s)) ELSE s

---------------------------------------------------------------------------
(* URLs. *)

Origin == "https://evaluating.tools/"

\* index.js constructCanonicalUrl(relativePath, lang)
constructCanonicalUrl(relativePath, lang) ==
  LET cleaned == StripTrailingSlashes(ReplaceBackslashes(relativePath))
      cleanPath == IF cleaned = <<".">> \/ cleaned = <<>> THEN <<>>
                   ELSE IF ~EndsWith(cleaned, <<".", "html">>)
                        THEN cleaned \o <<"/">>
                        ELSE cleaned
  IN <<Origin, lang, "/">> \o cleanPath

\* part_000: cleanRelativePath and canonicalUrl of translateHTML
canonicalUrl(relativePath, lang) ==
  LET cleanRelativePath == StripLeadingDots(StripTrailingSlashes(relativePath))
  IN IF cleanRelativePath = <<".">> \/ cleanRelativePath = <<>>
     THEN <<Origin, lang, "/">>
     ELSE <<Origin, lang, "/">> \o cleanRelativePath \o <<"/">>

\* part_000: `https://evaluating.tools/${lang}/${relativePath}`
rawAlternateUrl(relativePath, lang) == <<Origin, lang, "/">> \o relativePath

\* The href given to the canonical link of the generated document.
CanonicalHref(v, relativePath, lang) ==
  IF v = "index" THEN constructCanonicalUrl(relativePath, lang)
  ELSE canonicalUrl(relativePath, lang)

\* The href given to an alternate link the script creates.
AlternateHref(v, relativePath, lang) ==
  IF v = "index" THEN constructCanonicalUrl(relativePath, lang)
  ELSE rawAlternateUrl(relativePath, lang)

---------------------------------------------------------------------------
(* The parsed document (JSDOM), reduced to what translateHTML reads and    *)
(* writes.  elements is the NodeList of querySelectorAll(elementsQuery) in *)
(* document order; an element's kids are its childNodes: text nodes and    *)
(* selected child elements (by index in elements).  parent is 0 for an     *)
(* element whose parent is not selected, -1 once the element is detached.  *)

TextNode(s) == [k |-> "text", v |-> s, e |-> 0]

ElemNode(i) == [k |-> "el", v |-> <<>>, e |-> i]

Elem(tag, parent, kids) ==
  [tag |-> tag, hasHref |-> FALSE, href |-> <<>>, parent |-> parent, kids |-> kids]

Anchor(parent, href, kids) ==
  [tag |-> "a", hasHref |-> TRUE, href |-> href, parent |-> parent, kids |-> kids]

\* A meta tag: absent, present without a content attribute, or with content.
NoTag == [has |-> FALSE, hasContent |-> FALSE, content |-> <<>>]

TagNoContent == [has |-> TRUE, hasContent |-> FALSE, content |-> <<>>]

Tag(content) == [has |-> TRUE, hasContent |-> TRUE, content |-> content]

\* element.getAttribute("content"): null when the attribute is missing.
GetContent(tag) == IF tag.hasContent THEN tag.content ELSE Null

\* node.textContent
RECURSIVE TextContent(_, _)
RECURSIVE KidsText(_, _, _)
KidsText(els, kids, j) ==
  IF j > Len(kids) THEN <<>>
  ELSE (IF kids[j].k = "text" THEN kids[j].v ELSE TextContent(els, kids[j].e))
       \o KidsText(els, kids, j + 1)

TextContent(els, i) == KidsText(els, els[i].kids, 1)

\* element.children (restricted to selected elements)
RECURSIVE ChildrenFrom(_, _)
ChildrenFrom(kids, j) ==
  IF j > Len(kids) THEN <<>>
  ELSE (IF kids[j].k = "el" THEN <<kids[j].e>> ELSE <<>>) \o ChildrenFrom(kids, j + 1)

Children(els, i) == ChildrenFrom(els[i].kids, 1)

\* element.textContent = s: the children are replaced by one text node
\* (none for the empty string); the former child elements are detached.
SetTextContent(els, i, s) ==
  LET gone == {els[i].kids[j].e : j \in {m \in 1..Len(els[i].kids) : els[i].kids[m].k = "el"}}
  IN [n \in 1..Len(els) |->
        IF n = i THEN [els[n] EXCEPT !.kids = IF s = <<>> THEN <<>> ELSE <<TextNode(s)>>]
        ELSE IF n \in gone THEN [els[n] EXCEPT !.parent = -1]
        ELSE els[n]]

\* child.nodeValue = s for the text node at position j of element i
SetNodeValue(els, i, j, s) == [els EXCEPT ![i].kids[j].v = s]

\* Whether element i is still part of the serialized document.
RECURSIVE InDocument(_, _)
InDocument(els, i) ==
  IF els[i].parent = 0 THEN TRUE
  ELSE IF els[i].parent < 0 THEN FALSE
  ELSE InDocument(els, els[i].parent)

Link(hreflang, href, added) == [hreflang |-> hreflang, href |-> href, added |-> added]

\* The first loop of translateHTML over unfilteredlanguages.data: an
\* alternate link is appended for every code that has none yet.
RECURSIVE AddAlternates(_, _, _, _, _)
AddAlternates(v, alts, reg, relativePath, n) ==
  IF n > Len(reg) THEN alts
  ELSE LET code == reg[n].code
           existing == \E j \in 1..Len(alts) : alts[j].hreflang = code
           next == IF existing THEN alts
                   ELSE Append(alts, Link(code, AlternateHref(v, relativePath, code), TRUE))
       IN AddAlternates(v, next, reg, relativePath, n + 1)

---------------------------------------------------------------------------
(* Inputs: the registry and the source documents. *)

Locale(code, createnew) == [code |-> code, createnew |-> createnew]

Registries ==
  { <<Locale("en", FALSE), Locale("fr", TRUE), Locale("de", TRUE)>>,
    <<Locale("fr", TRUE), Locale("en", FALSE)>> }

X == <<"x">>

BlankDoc ==
  [name |-> "index.html", relPath |-> <<".">>, lang |-> "en",
   metaLanguage |-> NoTag, canonical |-> NoTag, alts |-> <<>>,
   title |-> NoTag, ogTitle |-> NoTag, ogDescription |-> NoTag, ogUrl |-> NoTag,
   metaTitle |-> NoTag, metaDescription |-> NoTag, elements |-> <<>>]

\* Root document: a padded title and a heading with the same words.
PlainDoc ==
  [BlankDoc EXCEPT
     !.title = Tag(<<"x", Space>>), !.ogTitle = Tag(<<"x", Space>>),
     !.elements = << Elem("h1", 0, <<TextNode(X)>>) >>]

\* Document whose title and Open Graph title hold the brand token twice,
\* with a copyright paragraph.
BrandDoc ==
  [BlankDoc EXCEPT
     !.name = "about.html", !.relPath = <<"a", "/", "b">>,
     !.title = Tag(<<"x", Brand, "x", Brand>>),
     !.ogTitle = Tag(<<"x", Brand, "x", Brand>>),
     !.ogUrl = Tag(<<"u">>),
     !.elements = << Elem("p", 0, <<TextNode(<<Copyright, Space, "x">>)>>) >>]

\* Document that already has a canonical link and duplicate alternate links,
\* and an anchor to the English tree with a child span.
NestedDoc ==
  [BlankDoc EXCEPT
     !.name = "page.html", !.relPath = <<"a">>,
     !.canonical = Tag(<<"old">>),
     !.alts = << Link("fr", <<"old">>, FALSE), Link("fr", <<"old">>, FALSE) >>,
     !.elements = << Anchor(0, <<"/", "en", "/", "x">>, <<ElemNode(2)>>),
                     Elem("span", 1, <<TextNode(<<"x", Space>>)>>) >>]

\* Malformed markup: a description without a content attribute, empty
\* elements; the titles hold the brand token once, the Open Graph
\* description is the word "null", the anchor holds the brand token in
\* another case.
MalformedDoc ==
  [BlankDoc EXCEPT
     !.name = "broken.html", !.relPath = <<"a", ".", "html">>,
     !.title = Tag(<<"x", Brand, Space, "x">>),
     !.ogTitle = Tag(<<"x", Brand, Space, "x">>),
     !.ogDescription = Tag(NullText),
     !.metaDescription = TagNoContent,
     !.metaLanguage = Tag(<<"en">>),
     !.elements = << Elem("div", 0, <<>>),
                     Elem("p", 0, <<TextNode(<<Space>>)>>),
                     Anchor(0, <<>>, <<TextNode(<<BrandOtherCase>>)>>) >>]

\* The documents in the order processFolder reaches them: readdirSync lists
\* the names of a folder sorted, so the folders "a" (with "b" before
\* "page.html") and "a.html" come before "index.html".
DocPool == << BrandDoc, NestedDoc, MalformedDoc, PlainDoc >>

\* A directory listing: files of the pool, in that order, at most MaxDocs.
RECURSIVE Listings(_)
Listings(n) ==
  IF n = 0 THEN { <<>> }
  ELSE LET shorter == Listings(n - 1)
       IN shorter \cup
          { Append(s, j) : s \in {t \in shorter : Len(t) = n - 1},
                           j \in 1..Len(DocPool) }

DocLists ==
  { [n \in 1..Len(s) |-> DocPool[s[n]]] :
      s \in { t \in Listings(MaxDocs) :
                Len(t) >= 1 /\ \A a, b \in 1..Len(t) : a < b => t[a] < t[b] } }

---------------------------------------------------------------------------
(* translateText(text, lang) and the provider. *)

\* const cacheKey = `${lang}:${text}`: a null text is written as "null", so
\* its key is the key of the text "null".
cacheKey(text, lang) == <<lang, ":">> \o (IF text = Null THEN NullText ELSE text)

\* translationCache.has(cacheKey)
CacheHas(cache, key) == key \in DOMAIN cache

\* A cache that forgets what it is given (a faulty variant of CacheSet).
CacheSetDropped(cache, key, value) == cache

\* translationCache.set(cacheKey, value)
CacheSet(cache, key, value) ==
  [k \in DOMAIN cache \cup {key} |-> IF k = key THEN value ELSE cache[k]]

\* A brand branch that sends every part, the last one included (a faulty
\* variant of BrandCallArgs).
BrandCallArgsAll(parts) == [i \in 1..Len(parts) |-> Trim(parts[i])]

\* The provider calls of the brand branch: parts.map(...), every part but
\* the last is sent trimmed, all of them started before any is awaited.
BrandCallArgs(parts) == [i \in 1..(Len(parts) - 1) |-> Trim(parts[i])]

\* The provider call of the plain branch: translate(text.trim(), ...)
PlainCallArgs(text) == << Trim(text) >>

\* What a successful provider call answers (res.text): the provider is an
\* external service; here it turns every letter "x" into "y" and keeps the
\* other symbols.
ProviderOutputs(arg) == { [j \in 1..Len(arg) |-> IF arg[j] = "x" THEN "y" ELSE arg[j]] }

IdleTT ==
  [active |-> FALSE, site |-> "none", text |-> <<>>, lang |-> "", mode |-> "idle",
   parts |-> <<>>, args |-> <<>>, st |-> <<>>, vals |-> <<>>]

\* translateText up to its first await: the cache lookup, the choice of
\* branch and the provider calls it starts.
StartTT(cache, site, text, lang) ==
  LET key == cacheKey(text, lang)
      base == [IdleTT EXCEPT !.active = TRUE, !.site = site, !.text = text, !.lang = lang]
  IN IF CacheHas(cache, key)
     THEN [base EXCEPT !.mode = "hit", !.vals = <<cache[key]>>]
     ELSE IF text = Null
     THEN [base EXCEPT !.mode = "null"]
     ELSE IF IncludesBrand(text)
     THEN LET parts == Split(text)
              args == BrandCallArgs(parts)
          IN [base EXCEPT !.mode = "brand", !.parts = parts, !.args = args,
                          !.st = [i \in 1..Len(args) |-> "pending"],
                          !.vals = [i \in 1..Len(args) |-> <<>>]]
     ELSE [base EXCEPT !.mode = "plain", !.args = PlainCallArgs(text),
                       !.st = [i \in 1..Len(PlainCallArgs(text)) |-> "pending"],
                       !.vals = [i \in 1..Len(PlainCallArgs(text)) |-> <<>>]]

Pending(t) == {i \in 1..Len(t.st) : t.st[i] = "pending"}

\* Provider calls in flight: those of the awaited translateText call and
\* those left behind by a Promise.all that has already rejected.
InFlight == Cardinality(Pending(tt)) + orphans

\* translateText has thrown: null.toLowerCase(), or Promise.all rejected
\* (the brand branch has no try/catch).
Throws(t) ==
  \/ t.mode = "null"
  \/ t.mode = "brand" /\ \E i \in 1..Len(t.st) : t.st[i] = "err"

\* translateText can return: a cache hit, a settled plain call, or a brand
\* branch whose calls all resolved.
Returns(t) ==
  \/ t.mode = "hit"
  \/ t.mode = "plain" /\ Pending(t) = {}
  \/ t.mode = "brand" /\ \A i \in 1..Len(t.st) : t.st[i] = "ok"

\* Whether the returning call stores its result in the cache.
Stores(t) ==
  \/ t.mode = "brand"
  \/ t.mode = "plain" /\ \A i \in 1..Len(t.st) : t.st[i] = "ok"

\* The value translateText returns.
ReturnValue(t) ==
  IF t.mode = "hit" THEN t.vals[1]
  ELSE IF t.mode = "brand" THEN Join(t.vals \o <<t.parts[Len(t.parts)]>>)
  ELSE IF t.st[1] = "ok" THEN t.vals[1]
  ELSE t.text

---------------------------------------------------------------------------
(* Observations. *)

Count(f, k) == IF k \in DOMAIN f THEN f[k] ELSE 0

Add(f, k, n) == [x \in DOMAIN f \cup {k} |-> Count(f, x) + (IF x = k THEN n ELSE 0)]

NoCall == [text |-> <<>>, lang |-> "", failed |-> FALSE, outcome |-> "none", result |-> <<>>]

InitHist ==
  [invoked |-> <<>>,      \* cache key -> translateText calls made with it
   issued |-> <<>>,       \* cache key -> provider calls started for it
   succeeded |-> {},      \* <<lang, text>> whose result was stored in the cache
   last |-> NoCall,       \* the translateText call that finished last
   raised |-> {},         \* <<file, locale code>> pairs that ended in the catch
   anySuccess |-> FALSE,  \* some provider call has resolved
   calledFor |-> {}]      \* <<file, locale code, element>> with a provider call

ElementSites == {"anchor", "node", "whole", "el", "child"}

\* The element a call at this site works for.
SiteElement(site) ==
  IF site = "child" THEN Children(dom.elements, ei)[ci] ELSE ei

HistStart(t) ==
  LET key == cacheKey(t.text, t.lang)
  IN [hist EXCEPT
        !.invoked = Add(@, key, 1),
        !.issued = Add(@, key, Len(t.args)),
        !.calledFor = IF t.site \in ElementSites /\ Len(t.args) > 0
                      THEN @ \cup {<<di, t.lang, SiteElement(t.site)>>} ELSE @]

---------------------------------------------------------------------------
(* The run. *)

Init ==
  /\ variant \in {"index", "part"}
  /\ registry \in Registries
  /\ docs \in DocLists
  /\ inputExists \in BOOLEAN
  /\ pc = "main"
  /\ di = 0
  /\ li = 0
  /\ ei = 0
  /\ ci = 0
  /\ origAlt = <<>>
  /\ dom = BlankDoc
  /\ tt = IdleTT
  /\ orphans = 0
  /\ translationCache = <<>>
  /\ outputs = {}
  /\ hist = InitHist

lang == registry[li].code

relativePath == docs[di].relPath

\* `await translateText(text, lang)` at a call site: the call starts and the
\* caller is suspended until Return or Raise.
Invoke(site, text) ==
  \E arg \in {text} :
    \E t \in {StartTT(translationCache, site, arg, lang)} :
      /\ tt' = t
      /\ hist' = HistStart(t)
      /\ pc' = "await"

\* main: the input folder check, then processFolder(inputFolder).
Main ==
  /\ pc = "main"
  /\ pc' = IF inputExists THEN "walk" ELSE "aborted"
  /\ UNCHANGED <<variant, registry, docs, inputExists, di, li, ei, ci, origAlt,
                 dom, tt, orphans, translationCache, outputs, hist>>

\* processFolder reaches the next .html file; translateHTML reads it, parses
\* originalDom and adds the alternate links to that document.
ReadFile ==
  /\ pc = "walk"
  /\ di < Len(docs)
  /\ di' = di + 1
  /\ origAlt' = AddAlternates(variant, docs[di + 1].alts, registry, docs[di + 1].relPath, 1)
  /\ li' = 1
  /\ pc' = "locale"
  /\ UNCHANGED <<variant, registry, docs, inputExists, ei, ci, dom, tt, orphans,
                 translationCache, outputs, hist>>

\* processFolder has no entry left: "Translation process completed!".
FinishRun ==
  /\ pc = "walk"
  /\ di = Len(docs)
  /\ pc' = "done"
  /\ UNCHANGED <<variant, registry, docs, inputExists, di, li, ei, ci, origAlt,
                 dom, tt, orphans, translationCache, outputs, hist>>

\* The second loop is over: translateHTML returns to processFolder.
EndOfLocales ==
  /\ pc = "locale"
  /\ li > Len(registry)
  /\ pc' = "walk"
  /\ UNCHANGED <<variant, registry, docs, inputExists, di, li, ei, ci, origAlt,
                 dom, tt, orphans, translationCache, outputs, hist>>

\* if (!langObj.createnew) continue;
SkipLocale ==
  /\ pc = "locale"
  /\ li <= Len(registry)
  /\ ~registry[li].createnew
  /\ li' = li + 1
  /\ UNCHANGED <<variant, registry, docs, inputExists, pc, di, ei, ci, origAlt,
                 dom, tt, orphans, translationCache, outputs, hist>>

\* The canonical link: created when missing, then rel and href are set.
SetCanonical(v, doc, path, code) == [doc EXCEPT !.canonical = Tag(CanonicalHref(v, path, code))]

\* The head of the try block: a fresh JSDOM of the source with <html lang>,
\* the canonical link and, in part_000 only, <meta name="language"> and the
\* alternate links.
NewDom(v, doc, reg, code) ==
  LET withLang == [doc EXCEPT !.lang = code]
      withCanonical == SetCanonical(v, withLang, doc.relPath, code)
  IN IF v = "index" THEN withCanonical
     ELSE [withCanonical EXCEPT
             !.metaLanguage = Tag(<<code>>),
             !.alts = AddAlternates(v, doc.alts, reg, doc.relPath, 1)]

BeginLocale ==
  /\ pc = "locale"
  /\ li <= Len(registry)
  /\ registry[li].createnew
  /\ dom' = NewDom(variant, docs[di], registry, lang)
  /\ pc' = IF variant = "index" THEN "ogTitle" ELSE "title"
  /\ UNCHANGED <<variant, registry, docs, inputExists, di, li, ei, ci, origAlt,
                 tt, orphans, translationCache, outputs, hist>>

Frame == <<variant, registry, docs, inputExists, di, li, ei, ci, origAlt, dom,
           orphans, translationCache, outputs>>

\* index.js: meta[property="og:title"]
TranslateOgTitle ==
  /\ pc = "ogTitle"
  /\ IF dom.ogTitle.has
     THEN Invoke("ogTitle", GetContent(dom.ogTitle))
     ELSE pc' = "ogDescription" /\ UNCHANGED <<tt, hist>>
  /\ UNCHANGED Frame

\* index.js: meta[property="og:description"]
TranslateOgDescription ==
  /\ pc = "ogDescription"
  /\ IF dom.ogDescription.has
     THEN Invoke("ogDescription", GetContent(dom.ogDescription))
     ELSE pc' = "ogUrl" /\ UNCHANGED <<tt, hist>>
  /\ UNCHANGED Frame

\* index.js: meta[property="og:url"] gets the canonical URL.
SetOgUrl ==
  /\ pc = "ogUrl"
  /\ dom' = IF dom.ogUrl.has
            THEN [dom EXCEPT !.ogUrl = Tag(constructCanonicalUrl(relativePath, lang))]
            ELSE dom
  /\ pc' = "metaTitle"
  /\ UNCHANGED <<variant, registry, docs, inputExists, di, li, ei, ci, origAlt,
                 tt, orphans, translationCache, outputs, hist>>

\* index.js: meta[name="title"]
TranslateMetaTitle ==
  /\ pc = "metaTitle"
  /\ IF dom.metaTitle.has
     THEN Invoke("metaTitle", GetContent(dom.metaTitle))
     ELSE pc' = "metaDescription" /\ UNCHANGED <<tt, hist>>
  /\ UNCHANGED Frame

\* part_000: <title>
TranslateTitle ==
  /\ pc = "title"
  /\ IF dom.title.has
     THEN Invoke("title", dom.title.content)
     ELSE pc' = "metaDescription" /\ UNCHANGED <<tt, hist>>
  /\ UNCHANGED Frame

\* meta[name="description"]: part_000 skips a missing or empty content,
\* index.js passes whatever getAttribute returns.
TranslateMetaDescription ==
  /\ pc = "metaDescription"
  /\ IF /\ dom.metaDescription.has
        /\ variant = "part" => (dom.metaDescription.hasContent
                                /\ dom.metaDescription.content # <<>>)
     THEN Invoke("metaDescription", GetContent(dom.metaDescription)) /\ ei' = ei
     ELSE pc' = "elements" /\ ei' = 1 /\ UNCHANGED <<tt, hist>>
  /\ UNCHANGED <<variant, registry, docs, inputExists, di, li, ci, origAlt, dom,
                 orphans, translationCache, outputs>>

\* The "/en/" segment of an href and its replacement `/${lang}/`.
EnSegment == <<"/", "en", "/">>

\* href.replace("/en/", `/${lang}/`) when the href includes "/en/".
RewriteHrefOf(el, code) ==
  IF el.hasHref /\ el.href # <<>> /\ IndexOf(el.href, EnSegment) # 0
  THEN [el EXCEPT !.href = ReplaceFirst(el.href, EnSegment, <<"/", code, "/">>)]
  ELSE el

\* index.js translateElementText: the guard of its first line.
SkipsIndex(els, i) ==
  LET tc == TextContent(els, i)
  IN \/ Trim(tc) = <<>>
     \/ StartsWith(Trim(tc), <<ACircumflex, Copyright>>)
     \/ IncludesBrand(tc)

\* part_000 translateElementText: the two guards before translateText.
SkipsPart(els, i) ==
  LET text == Trim(TextContent(els, i))
  IN \/ text = <<>>
     \/ StartsWith(text, <<Copyright>>)
     \/ IncludesBrand(text)

\* One turn of `for (const element of elements)`, up to its first await.
ElementStep ==
  /\ pc = "elements"
  /\ \E els \in {dom.elements} :
     IF ei > Len(els)
     THEN pc' = "write" /\ UNCHANGED <<ei, ci, dom, tt, hist>>
     ELSE IF variant = "index"
     THEN IF els[ei].tag = "a"
          THEN \* translateAnchorElement
               /\ dom' = [dom EXCEPT !.elements[ei] = RewriteHrefOf(@, lang)]
               /\ IF Trim(TextContent(els, ei)) # <<>>
                  THEN Invoke("anchor", Trim(TextContent(els, ei))) /\ UNCHANGED <<ei, ci>>
                  ELSE ei' = ei + 1 /\ UNCHANGED <<pc, ci, tt, hist>>
          ELSE \* translateElementText
               /\ dom' = dom
               /\ IF SkipsIndex(els, ei)
                  THEN ei' = ei + 1 /\ UNCHANGED <<pc, ci, tt, hist>>
                  ELSE IF Len(els[ei].kids) > 0
                  THEN pc' = "nodes" /\ ci' = 1 /\ UNCHANGED <<ei, tt, hist>>
                  ELSE Invoke("whole", Trim(TextContent(els, ei))) /\ UNCHANGED <<ei, ci>>
     ELSE /\ dom' = dom
          /\ IF els[ei].tag = "a" /\ Len(Children(els, ei)) > 0
             THEN pc' = "children" /\ ci' = 1 /\ UNCHANGED <<ei, tt, hist>>
             ELSE IF SkipsPart(els, ei)
             THEN /\ UNCHANGED <<ci, tt, hist>>
                  /\ IF els[ei].tag = "a"
                     THEN pc' = "anchorHref" /\ ei' = ei
                     ELSE pc' = pc /\ ei' = ei + 1
             ELSE Invoke("el", Trim(TextContent(els, ei))) /\ UNCHANGED <<ei, ci>>
  /\ UNCHANGED <<variant, registry, docs, inputExists, di, li, origAlt, orphans,
                 translationCache, outputs>>

\* index.js: one turn of `for (const child of element.childNodes)`.
NodeStep ==
  /\ pc = "nodes"
  /\ \E kids \in {dom.elements[ei].kids} :
     IF ci > Len(kids)
     THEN pc' = "elements" /\ ei' = ei + 1 /\ ci' = 0 /\ UNCHANGED <<tt, hist>>
     ELSE IF kids[ci].k = "text"
     THEN Invoke("node", Trim(kids[ci].v)) /\ UNCHANGED <<ei, ci>>
     ELSE ci' = ci + 1 /\ UNCHANGED <<pc, ei, tt, hist>>
  /\ UNCHANGED <<variant, registry, docs, inputExists, di, li, origAlt, dom,
                 orphans, translationCache, outputs>>

\* part_000: one turn of `for (const child of element.children)` of an anchor.
ChildStep ==
  /\ pc = "children"
  /\ \E children \in {Children(dom.elements, ei)} :
     IF ci > Len(children)
     THEN pc' = "anchorHref" /\ ci' = 0 /\ UNCHANGED <<tt, hist>>
     ELSE IF SkipsPart(dom.elements, children[ci])
     THEN ci' = ci + 1 /\ UNCHANGED <<pc, tt, hist>>
     ELSE Invoke("child", Trim(TextContent(dom.elements, children[ci]))) /\ ci' = ci
  /\ UNCHANGED <<variant, registry, docs, inputExists, di, li, ei, origAlt, dom,
                 orphans, translationCache, outputs>>

\* part_000: the href update that follows the text of an anchor.
RewriteHref ==
  /\ pc = "anchorHref"
  /\ dom' = [dom EXCEPT !.elements[ei] = RewriteHrefOf(@, lang)]
  /\ ei' = ei + 1
  /\ pc' = "elements"
  /\ UNCHANGED <<variant, registry, docs, inputExists, di, li, ci, origAlt, tt,
                 orphans, translationCache, outputs, hist>>

\* path.join(outputFolder, lang, relativePath) and path.basename(filePath)
OutputPath(code, path, name) == <<code, path, name>>

\* mkdirSync, writeFileSync(outputFilePath, translatedDom.serialize()).
WriteFile ==
  /\ pc = "write"
  /\ LET at == OutputPath(lang, relativePath, docs[di].name) IN
     outputs' = {o \in outputs : o.path # at}
                \cup {[path |-> at, file |-> di, lang |-> lang, doc |-> dom]}
  /\ li' = li + 1
  /\ pc' = "locale"
  /\ dom' = BlankDoc
  /\ ei' = 0
  /\ ci' = 0
  /\ UNCHANGED <<variant, registry, docs, inputExists, di, origAlt, tt, orphans,
                 translationCache, hist>>

\* The provider answers a pending call of the awaited translateText.
ProviderResolve ==
  /\ pc = "await"
  /\ \E i \in Pending(tt) : \E out \in ProviderOutputs(tt.args[i]) :
       tt' = [tt EXCEPT !.st[i] = "ok", !.vals[i] = out]
  /\ hist' = [hist EXCEPT !.anySuccess = TRUE]
  /\ UNCHANGED <<variant, registry, docs, inputExists, pc, di, li, ei, ci, origAlt,
                 dom, orphans, translationCache, outputs>>

\* A pending call of the awaited translateText fails.
ProviderReject ==
  /\ pc = "await"
  /\ \E i \in Pending(tt) : tt' = [tt EXCEPT !.st[i] = "err"]
  /\ UNCHANGED <<variant, registry, docs, inputExists, pc, di, li, ei, ci, origAlt,
                 dom, orphans, translationCache, outputs, hist>>

\* A call left behind by a rejected Promise.all settles; nobody reads it.
OrphanSettle ==
  /\ orphans > 0
  /\ orphans' = orphans - 1
  /\ \E ok \in BOOLEAN : hist' = [hist EXCEPT !.anySuccess = @ \/ ok]
  /\ UNCHANGED <<variant, registry, docs, inputExists, pc, di, li, ei, ci, origAlt,
                 dom, tt, translationCache, outputs>>

\* The statement after `await translateText(...)` at each call site, for the
\* returned value r: the new document and the place the caller goes on from.
Continue(site, r) ==
  LET els == dom.elements
      same == [dom |-> dom, pc |-> pc, ei |-> ei, ci |-> ci]
  IN IF site = "ogTitle" THEN [same EXCEPT !.dom.ogTitle = Tag(r), !.pc = "ogDescription"]
     ELSE IF site = "ogDescription"
     THEN [same EXCEPT !.dom.ogDescription = Tag(r), !.pc = "ogUrl"]
     ELSE IF site = "metaTitle"
     THEN [same EXCEPT !.dom.metaTitle = Tag(r), !.pc = "metaDescription"]
     ELSE IF site = "title"
     THEN [same EXCEPT !.dom.title = Tag(r), !.pc = "metaDescription"]
     ELSE IF site = "metaDescription"
     THEN [same EXCEPT !.dom.metaDescription = Tag(r), !.pc = "elements", !.ei = 1]
     ELSE IF site = "node"
     THEN [same EXCEPT !.dom.elements = SetNodeValue(els, ei, ci, r),
                       !.pc = "nodes", !.ci = ci + 1]
     ELSE IF site = "child"
     THEN [same EXCEPT !.dom.elements = SetTextContent(els, Children(els, ei)[ci], r),
                       !.pc = "children", !.ci = ci + 1]
     ELSE IF site = "el" /\ els[ei].tag = "a"
     THEN [same EXCEPT !.dom.elements = SetTextContent(els, ei, r), !.pc = "anchorHref"]
     ELSE \* "anchor", "whole", and "el" of another tag
          [same EXCEPT !.dom.elements = SetTextContent(els, ei, r),
                       !.pc = "elements", !.ei = ei + 1]

\* translateText returns: the result is stored (unless it was a hit or a
\* failed plain call) and the caller goes on.
Return ==
  /\ pc = "await"
  /\ Returns(tt)
  /\ \E r \in {ReturnValue(tt)} :
     \E next \in {Continue(tt.site, r)} :
     \E stored \in {tt.mode # "hit" /\ Stores(tt)} :
        /\ translationCache' =
             IF stored THEN CacheSet(translationCache, cacheKey(tt.text, tt.lang), r)
             ELSE translationCache
        /\ dom' = next.dom
        /\ pc' = next.pc
        /\ ei' = next.ei
        /\ ci' = next.ci
        /\ hist' = [hist EXCEPT
             !.succeeded = IF stored THEN @ \cup {<<tt.lang, tt.text>>} ELSE @,
             !.last = [text |-> tt.text, lang |-> tt.lang,
                       failed |-> \E i \in 1..Len(tt.st) : tt.st[i] = "err",
                       outcome |-> "returned", result |-> r]]
  /\ tt' = IdleTT
  /\ UNCHANGED <<variant, registry, docs, inputExists, di, li, origAlt, orphans, outputs>>

\* Where an exception of translateText lands: the try/catch of index.js's
\* translateElementText, or else the per-locale catch of translateHTML.
CaughtInElement(site) == variant = "index" /\ site \in {"node", "whole"}

\* A catch block that ends the run (a faulty variant of AfterCatch).
AfterCatchAborts == "aborted"

\* The place the run goes on from after the per-locale catch has logged.
AfterCatch == "locale"

\* translateText throws: the calls still pending are left behind, and the
\* catch block that encloses the call site runs.
Raise ==
  /\ pc = "await"
  /\ Throws(tt)
  /\ orphans' = orphans + Cardinality(Pending(tt))
  /\ tt' = IdleTT
  /\ LET seen == [hist EXCEPT
                    !.last = [text |-> tt.text, lang |-> tt.lang,
                              failed |-> \E i \in 1..Len(tt.st) : tt.st[i] = "err",
                              outcome |-> "raised", result |-> <<>>]]
     IN IF CaughtInElement(tt.site)
        THEN /\ pc' = "elements"
             /\ ei' = ei + 1
             /\ ci' = 0
             /\ hist' = seen
             /\ UNCHANGED <<li, dom>>
        ELSE /\ pc' = AfterCatch
             /\ li' = li + 1
             /\ ei' = 0
             /\ ci' = 0
             /\ dom' = BlankDoc
             /\ hist' = [seen EXCEPT !.raised = @ \cup {<<di, lang>>}]
  /\ UNCHANGED <<variant, registry, docs, inputExists, di, origAlt,
                 translationCache, outputs>>

Next ==
  \/ Main
  \/ ReadFile
  \/ FinishRun
  \/ EndOfLocales
  \/ SkipLocale
  \/ BeginLocale
  \/ TranslateOgTitle
  \/ TranslateOgDescription
  \/ SetOgUrl
  \/ TranslateMetaTitle
  \/ TranslateTitle
  \/ TranslateMetaDescription
  \/ ElementStep
  \/ NodeStep
  \/ ChildStep
  \/ RewriteHref
  \/ WriteFile
  \/ ProviderResolve
  \/ ProviderReject
  \/ OrphanSettle
  \/ Return
  \/ Raise

Spec == Init /\ [][Next]_vars

\* The event loop runs every continuation that is ready, and the provider
\* settles every call it was given.
FairSpec == Spec /\ WF_vars(Next)

---------------------------------------------------------------------------
(* Properties. *)

\* Number of exact-case brand tokens of a text.
BrandCount(s) == Cardinality({i \in 1..Len(s) : s[i] = Brand})

\* The brand tokens of a text, in order and as spelled.
RECURSIVE BrandTokens(_)
BrandTokens(s) ==
  IF s = <<>> THEN <<>>
  ELSE (IF ToLowerSym(Head(s)) = Brand THEN <<Head(s)>> ELSE <<>>) \o BrandTokens(Tail(s))

\* The (file, locale code) pairs translateHTML generates a document for.
Pairs == {<<d, registry[n].code>> : d \in 1..Len(docs),
                                    n \in {m \in 1..Len(registry) : registry[m].createnew}}

Written(p) == \E o \in outputs : o.file = p[1] /\ o.lang = p[2]

\* Some translateText call has been made with a text holding the brand token
\* two or more times.
MultiBrandSeen ==
  \E k \in DOMAIN hist.invoked : BrandCount(SubSeq(k, 3, Len(k))) >= 2

\* C1 (as stated): two calls of translateText with the same text and locale
\* start at most one provider call in total.
C1_TwoCallsOneProviderCall ==
  \A k \in DOMAIN hist.invoked : hist.invoked[k] = 2 => Count(hist.issued, k) <= 1

\* C1 (amended): once a translateText call for (t, l) has stored its result,
\* every later call with the same (t, l) is a cache hit: it starts no
\* provider call and returns the stored value.
C1_HitAfterStoredResult ==
  (tt.active /\ <<tt.lang, tt.text>> \in hist.succeeded) =>
     /\ tt.mode = "hit"
     /\ tt.args = <<>>
     /\ tt.vals = <<translationCache[cacheKey(tt.text, tt.lang)]>>

C1_Witness ==
  /\ tt.active
  /\ <<tt.lang, tt.text>> \in hist.succeeded
  /\ hist.invoked[cacheKey(tt.text, tt.lang)] = 2
  /\ Count(hist.issued, cacheKey(tt.text, tt.lang)) = 1

\* C2: a translateText call one of whose provider calls failed returns the
\* original text, does not raise, and leaves no cache entry for its key.
C2_FailureReturnsOriginal ==
  hist.last.failed =>
     /\ hist.last.outcome = "returned"
     /\ hist.last.result = hist.last.text
     /\ ~CacheHas(translationCache, cacheKey(hist.last.text, hist.last.lang))

\* C3 (as stated): at most one provider call is in flight.
C3_AtMostOneInFlight == InFlight <= 1

\* C3 (amended): at most one provider call is in flight as long as no text
\* with two or more brand tokens has been passed to translateText, and the
\* calls of a translateText call for any other text never exceed one.
C3_OneInFlightUnlessMultiBrand ==
  /\ ~MultiBrandSeen => InFlight <= 1
  /\ BrandCount(tt.text) <= 1 => Cardinality(Pending(tt)) <= 1

C3_Witness ==
  /\ ~MultiBrandSeen
  /\ tt.mode = "brand"
  /\ BrandCount(tt.text) = 1
  /\ InFlight = 1

\* C4: for a text that contains the brand token, translateText returns a
\* string with the same brand tokens, verbatim and in the same order,
\* whatever the provider did.
C4_BrandTokenKept ==
  (hist.last.outcome # "none" /\ IncludesBrand(hist.last.text)) =>
     /\ hist.last.outcome = "returned"
     /\ BrandTokens(hist.last.result) = BrandTokens(hist.last.text)

\* C5: every written document has exactly one alternate link per registry
\* locale and no two alternate links with the same hreflang.
C5_OneAlternatePerLocale ==
  \A o \in outputs :
     /\ \A n \in 1..Len(registry) :
          Cardinality({j \in 1..Len(o.doc.alts) :
                         o.doc.alts[j].hreflang = registry[n].code}) = 1
     /\ \A i, j \in 1..Len(o.doc.alts) :
          o.doc.alts[i].hreflang = o.doc.alts[j].hreflang => i = j

\* The translatable text of a generated document equals that of its source.
SameText(out, src) ==
  /\ out.title = src.title
  /\ out.ogTitle = src.ogTitle
  /\ out.ogDescription = src.ogDescription
  /\ out.metaTitle = src.metaTitle
  /\ out.metaDescription = src.metaDescription
  /\ \A i \in 1..Len(src.elements) :
       InDocument(out.elements, i) =>
          TextContent(out.elements, i) = TextContent(src.elements, i)

\* Every meta tag of the document carries a content attribute.
WellFormed(doc) ==
  \A t \in {doc.ogTitle, doc.ogDescription, doc.ogUrl, doc.metaTitle, doc.metaDescription} :
     t.has => t.hasContent

\* C6: when every provider call failed, the finished run has written, for
\* every document and createnew locale, a file with lang and canonical link
\* set for the locale and all text equal to the source.  Stated for the
\* documents whose meta tags all carry a content attribute.
C6_AllFailStillWritten ==
  (pc = "done" /\ ~hist.anySuccess) =>
     \A p \in {q \in Pairs : WellFormed(docs[q[1]])} :
        \E o \in outputs :
           /\ o.file = p[1]
           /\ o.lang = p[2]
           /\ o.doc.lang = p[2]
           /\ o.doc.canonical = Tag(CanonicalHref(variant, docs[p[1]].relPath, p[2]))
           /\ SameText(o.doc, docs[p[1]])

\* C7: a (document, locale) pair that raised has no output file, and after
\* a pair has raised the run still completes with every pair either
\* written or itself raised.
C7_FailureDoesNotStopRun ==
  /\ [](\A p \in hist.raised : ~Written(p))
  /\ [](hist.raised # {} =>
          <>(pc = "done" /\ \A p \in Pairs : Written(p) \/ p \in hist.raised))

C7_Witness ==
  /\ pc = "done"
  /\ Len(docs) = 2
  /\ <<1, "fr">> \in hist.raised
  /\ Written(<<1, "de">>)
  /\ Written(<<2, "fr">>)

\* C8: every alternate link the tool adds has the canonical URL of its
\* locale and the document's relative path as href.
C8_AlternateIsCanonical ==
  /\ di >= 1 =>
       \A j \in 1..Len(origAlt) :
          origAlt[j].added =>
             origAlt[j].href = CanonicalHref(variant, relativePath, origAlt[j].hreflang)
  /\ \A o \in outputs : \A j \in 1..Len(o.doc.alts) :
       o.doc.alts[j].added =>
          o.doc.alts[j].href =
             CanonicalHref(variant, docs[o.file].relPath, o.doc.alts[j].hreflang)

\* C9: a call whose text equals, after trimming, a text already translated
\* for the same locale is a cache hit.
C9_TrimmedKeyHit ==
  (tt.active /\ \E s \in hist.succeeded : s[1] = tt.lang /\ Trim(s[2]) = Trim(tt.text))
     => tt.mode = "hit"

\* The skip condition of the element text policy.
MustSkip(els, i) ==
  LET text == Trim(TextContent(els, i))
  IN text = <<>> \/ StartsWith(text, <<Copyright>>) \/ IncludesBrand(text)

\* C10: an element whose text is empty, starts with the copyright sign or
\* contains the brand token keeps its text in the written document and has
\* no provider call made for it.
C10_SkippedElementsUntouched ==
  \A o \in outputs : \A i \in 1..Len(docs[o.file].elements) :
     (MustSkip(docs[o.file].elements, i) /\ InDocument(o.doc.elements, i)) =>
        /\ TextContent(o.doc.elements, i) = TextContent(docs[o.file].elements, i)
        /\ <<o.file, o.lang, i>> \notin hist.calledFor

=============================================================================
